---- MODULE Spec2Model ----
(***************************************************************************)
(* Model of bot.py: the prayer-times Telegram bot.                         *)
(*                                                                         *)
(*   - calculate_times (TimeMath) as an operator over character sequences, *)
(*     with strptime("%H:%M"), strftime("%H:%M") and str(timedelta)        *)
(*     modelled as the conversions they are;                               *)
(*   - get_prayer_times (TimingsProvider) as an operator over the kinds of *)
(*     HTTP outcome and JSON body;                                         *)
(*   - the five handlers as tasks that run from one await to the next.     *)
(*                                                                         *)
(* Python strings are sequences of one-character strings.                  *)
(***************************************************************************)
EXTENDS Integers, Sequences, FiniteSets, TLC

\* ------------------------------------------------------------------------
\* Bounds
\* ------------------------------------------------------------------------
MaxDay == 1
MaxTasks == 2
MaxEvents == 4

MaxConcurrentEvents == 3

\* ------------------------------------------------------------------------
\* Characters and decimal digits
\* ------------------------------------------------------------------------
Digits == <<"0", "1", "2", "3", "4", "5", "6", "7", "8", "9">>

IsDigit(c) == \E i \in 1..10 : Digits[i] = c

DigitOf(c) == (CHOOSE i \in 1..10 : Digits[i] = c) - 1

DigitChar(n) == Digits[n + 1]

\* "%02d"
Fmt2(n) == <<DigitChar((n \div 10) % 10), DigitChar(n % 10)>>

\* "%d" of a natural number below 100
FmtNat(n) == IF n < 10 THEN <<DigitChar(n)>> ELSE Fmt2(n)

SecondsPerDay == 86400

\* ------------------------------------------------------------------------
\* datetime.strptime(s, "%H:%M").time()
\*   %H is (2[0-3]|[0-1]\d|\d), %M is ([0-5]\d|\d); the whole string must be
\*   consumed.  The result is the time of day in minutes, or -1 for the
\*   ValueError.
\* ------------------------------------------------------------------------
HourWidth(s) ==
    IF /\ Len(s) >= 2
       /\ IsDigit(s[1])
       /\ IsDigit(s[2])
       /\ \/ s[1] = "2" /\ DigitOf(s[2]) <= 3
          \/ s[1] \in {"0", "1"}
    THEN 2
    ELSE IF Len(s) >= 1 /\ IsDigit(s[1]) THEN 1 ELSE 0

MinuteWidth(s, p) ==
    IF /\ Len(s) >= p + 1
       /\ IsDigit(s[p])
       /\ DigitOf(s[p]) <= 5
       /\ IsDigit(s[p + 1])
    THEN 2
    ELSE IF Len(s) >= p /\ IsDigit(s[p]) THEN 1 ELSE 0

FieldValue(s, p, w) ==
    IF w = 2 THEN 10 * DigitOf(s[p]) + DigitOf(s[p + 1]) ELSE DigitOf(s[p])

strptime(s) ==
    LET hw == HourWidth(s)
        mp == hw + 2
        mw == MinuteWidth(s, mp)
    IN  IF /\ hw > 0
           /\ Len(s) >= hw + 1
           /\ s[hw + 1] = ":"
           /\ mw > 0
           /\ Len(s) = hw + 1 + mw
        THEN 60 * FieldValue(s, 1, hw) + FieldValue(s, mp, mw)
        ELSE -1

\* datetime.combine(date, time): seconds since day 0, 00:00
combine(day, minutes) == day * SecondsPerDay + 60 * minutes

\* the instant rounded to the nearest minute before it is formatted
strftime_rounds(dt) ==
    LET tod == (dt + 30) % SecondsPerDay
    IN  Fmt2(tod \div 3600) \o <<":">> \o Fmt2((tod % 3600) \div 60)

\* dt.strftime("%H:%M")
strftime(dt) ==
    LET tod == dt % SecondsPerDay
    IN  Fmt2(tod \div 3600) \o <<":">> \o Fmt2((tod % 3600) \div 60)

\* str(timedelta): "[D day[s], ]H:MM:SS", days = floor, 0 <= seconds < 86400
Abs(n) == IF n < 0 THEN -n ELSE n

\* the duration formatted without its seconds
str_timedelta_no_seconds(d) ==
    LET days == d \div SecondsPerDay
        secs == d % SecondsPerDay
        hm   == FmtNat(secs \div 3600) \o <<":">> \o Fmt2((secs % 3600) \div 60)
    IN  IF days = 0 THEN hm
        ELSE FmtNat(Abs(days)) \o <<" ", "d", "a", "y", ",", " ">> \o hm

str_timedelta(d) ==
    LET days == d \div SecondsPerDay
        secs == d % SecondsPerDay
        hms  == FmtNat(secs \div 3600) \o <<":">> \o Fmt2((secs % 3600) \div 60)
                  \o <<":">> \o Fmt2(secs % 60)
        sign == IF days < 0 THEN <<"-">> ELSE <<>>
        plur == IF Abs(days) # 1 THEN <<"s">> ELSE <<>>
    IN  IF days = 0 THEN hms
        ELSE sign \o FmtNat(Abs(days)) \o <<" ", "d", "a", "y">> \o plur
               \o <<",", " ">> \o hms

\* s.split('.')[0]
split_dot_first(s) ==
    IF \E i \in 1..Len(s) : s[i] = "."
    THEN SubSeq(s, 1, (CHOOSE i \in 1..Len(s) :
                          s[i] = "." /\ \A j \in 1..(i - 1) : s[j] # ".") - 1)
    ELSE s

\* ------------------------------------------------------------------------
\* Python values that can stand where an HH:MM string is expected, and the
\* timings argument of calculate_times.
\*   value:   [tag: "str" | "num" | "null" | "missing", s: characters]
\*            ("missing" = the key is absent from the mapping)
\*   timings: [tag: "dict" | "list" | "null", Maghrib, Isha, Fajr: value,
\*             other: the mapping has further keys]
\* ------------------------------------------------------------------------
StrV(s) == [tag |-> "str", s |-> s]
NumV == [tag |-> "num", s |-> <<>>]
NullV == [tag |-> "null", s |-> <<>>]
MissingV == [tag |-> "missing", s |-> <<>>]

Dict(m, i, f, o) ==
    [tag |-> "dict", Maghrib |-> m, Isha |-> i, Fajr |-> f, other |-> o]

NonDict(t) ==
    [tag |-> t, Maghrib |-> MissingV, Isha |-> MissingV, Fajr |-> MissingV,
     other |-> FALSE]

\* bool(timings)
Truthy(t) ==
    CASE t.tag = "dict" -> \/ t.other
                           \/ \E k \in {t.Maghrib, t.Isha, t.Fajr} : k.tag # "missing"
      [] t.tag = "list" -> TRUE
      [] OTHER -> FALSE

\* ------------------------------------------------------------------------
\* calculate_times
\* ------------------------------------------------------------------------
NoFields ==
    [Maghrib |-> <<>>, Isha |-> <<>>, Fajr |-> <<>>, Night_Duration |-> <<>>,
     Islamic_Midnight |-> <<>>, Wake_Up_Suggestion |-> <<>>,
     Sleep_Suggestion |-> <<>>]

\* return {}
EmptyResult == [kind |-> "empty", out |-> NoFields]

\* an exception that the except clause does not name leaves the function
RaisedResult == [kind |-> "raise", out |-> NoFields]

\* line 82 without the timedelta(days=1)
tomorrow_is_today(today) == today

\* lines 81-82 evaluated once, when the module is loaded (on day 0)
tomorrow_of_load_day(today) == 1

tomorrow(today) == today + 1

\* line 104 without the division
half_night_whole(night_duration) == night_duration

half_night(night_duration) == night_duration \div 2

\* line 112 with the wrong divisor
sixth_night_fifth(night_duration) == night_duration \div 5

\* line 112 with the divisor of line 104
sixth_night_half(night_duration) == night_duration \div 2

sixth_night(night_duration) == night_duration \div 6

\* lines 85-98: the three lookups, then the three parses, in source order.
\* "keyerror" and "valueerror" are caught (return {}), "typeerror" is not.
ParseOutcome(timings) ==
    IF timings.tag # "dict" THEN "typeerror"
    ELSE IF \E v \in {timings.Maghrib, timings.Isha, timings.Fajr} :
                v.tag = "missing" THEN "keyerror"
    ELSE IF timings.Maghrib.tag # "str" THEN "typeerror"
    ELSE IF strptime(timings.Maghrib.s) < 0 THEN "valueerror"
    ELSE IF timings.Isha.tag # "str" THEN "typeerror"
    ELSE IF strptime(timings.Isha.s) < 0 THEN "valueerror"
    ELSE IF timings.Fajr.tag # "str" THEN "typeerror"
    ELSE IF strptime(timings.Fajr.s) < 0 THEN "valueerror"
    ELSE "ok"

calculate_times(timings, today) ==
    LET po == ParseOutcome(timings)
    IN  IF po = "typeerror" THEN RaisedResult
        ELSE IF po # "ok" THEN EmptyResult
        ELSE
          LET maghrib_dt == combine(today, strptime(timings.Maghrib.s))
              isha_dt == combine(today, strptime(timings.Isha.s))
              fajr_dt == combine(tomorrow(today), strptime(timings.Fajr.s))
              night_duration == fajr_dt - maghrib_dt
              midnight_dt == maghrib_dt + half_night(night_duration)
              wake_up_dt == midnight_dt
              sleep_dt == fajr_dt - sixth_night(night_duration)
          IN  [kind |-> "ok",
               out |-> [Maghrib |-> strftime(maghrib_dt),
                        Isha |-> strftime(isha_dt),
                        Fajr |-> strftime(fajr_dt),
                        Night_Duration |-> split_dot_first(str_timedelta(night_duration)),
                        Islamic_Midnight |-> strftime(midnight_dt),
                        Wake_Up_Suggestion |-> strftime(wake_up_dt),
                        Sleep_Suggestion |-> strftime(sleep_dt)]]

\* ------------------------------------------------------------------------
\* get_prayer_times
\*   response: [status: "neterr" | "httperr" | "notjson" | "ok",
\*              top:  "falsy" | "nondict" | "dict"      (the JSON body)
\*              data: "falsy" | "nondict" | "dict"      (body["data"])
\*              timings: a timings value               (body["data"]["timings"])]
\*   json_caught: whether the installed requests raises a RequestException
\*   subclass from response.json() (it does from 2.27 on; the repository
\*   pins no version).
\*   Returns [kind: "timings" | "none" | "raise", v].
\* ------------------------------------------------------------------------
Response(st, top, data, t) ==
    [status |-> st, top |-> top, data |-> data, timings |-> t]

\* requests: the number of requests.get calls the invocation made (line 54)
ProviderNone == [kind |-> "none", v |-> NonDict("null"), requests |-> 1]

ProviderRaise == [kind |-> "raise", v |-> NonDict("null"), requests |-> 1]

\* lines 53-66 with a second requests.get after a request that failed
get_prayer_times_retries(response, json_caught) ==
    CASE response.status \in {"neterr", "httperr"} ->
            [ProviderNone EXCEPT !.requests = 2]
      [] response.status = "notjson" ->
            IF json_caught THEN ProviderNone ELSE ProviderRaise
      [] OTHER ->
            IF response.top = "falsy" THEN ProviderNone
            ELSE IF response.top = "nondict" THEN ProviderRaise
            ELSE IF response.data = "falsy" THEN ProviderNone
            ELSE IF response.data = "nondict" THEN ProviderRaise
            ELSE IF Truthy(response.timings)
                 THEN [kind |-> "timings", v |-> response.timings,
                       requests |-> 1]
                 ELSE ProviderNone

get_prayer_times(response, json_caught) ==
    CASE response.status \in {"neterr", "httperr"} -> ProviderNone
      [] response.status = "notjson" ->
            IF json_caught THEN ProviderNone ELSE ProviderRaise
      [] OTHER ->
            IF response.top = "falsy" THEN ProviderNone
            ELSE IF response.top = "nondict" THEN ProviderRaise
            ELSE IF response.data = "falsy" THEN ProviderNone
            ELSE IF response.data = "nondict" THEN ProviderRaise
            ELSE IF Truthy(response.timings)
                 THEN [kind |-> "timings", v |-> response.timings,
                       requests |-> 1]
                 ELSE ProviderNone

\* ------------------------------------------------------------------------
\* str helpers used by the handlers
\* ------------------------------------------------------------------------
\* line 233 without the strip()
strip_nothing(s) == s

\* s.strip()
strip(s) ==
    IF \A i \in 1..Len(s) : s[i] = " " THEN <<>>
    ELSE LET a == CHOOSE i \in 1..Len(s) :
                      s[i] # " " /\ \A j \in 1..(i - 1) : s[j] = " "
             b == CHOOSE i \in 1..Len(s) :
                      s[i] # " " /\ \A j \in (i + 1)..Len(s) : s[j] = " "
         IN  SubSeq(s, a, b)

CountryPrefix == <<"c", "o", "u", "n", "t", "r", "y", "_">>

\* s.startswith(p)
startswith(s, p) == Len(s) >= Len(p) /\ SubSeq(s, 1, Len(p)) = p

\* s.split("_", 1)[1], for s that contains "_"
split_underscore_second(s) ==
    LET i == CHOOSE k \in 1..Len(s) :
                 s[k] = "_" /\ \A j \in 1..(k - 1) : s[j] # "_"
    IN  SubSeq(s, i + 1, Len(s))

\* dict operations
DictSet(d, k, v) == [x \in (DOMAIN d) \cup {k} |-> IF x = k THEN v ELSE d[x]]

\* line 236 as a read that leaves the key in place
DictPop_keeps_key(d, k) == d

DictPop(d, k) == [x \in (DOMAIN d) \ {k} |-> d[x]]

EmptyDict == [x \in {} |-> <<>>]

\* ------------------------------------------------------------------------
\* Input sets
\* ------------------------------------------------------------------------
\* update.effective_user.id: the user of the update and one other user (a
\* handler indexes the two maps by the id of its own update only)
Users == {1, 2}

TaskIds == 1..MaxTasks

HourSamples == {0, 4, 18, 23}

MinuteSamples == {0, 30, 59}

PaddedTimes ==
    {Fmt2(h) \o <<":">> \o Fmt2(m) : h \in HourSamples, m \in MinuteSamples}

UnpaddedTimes == {<<"4", ":", "3", "0">>, <<"0", ":", "0">>, <<"2", "3", ":", "5">>}

BadTimes ==
    {<<>>, <<"2", "4", ":", "0", "0">>, <<"1", "8", ":", "6", "0">>,
     <<"1", "8", "0", "0">>, <<"1", "8", ":", "0", "0", " ">>}

\* the last minutes before midnight: nights of one, two and three minutes
EdgeTimes == {<<"2", "3", ":", "5", "7">>, <<"2", "3", ":", "5", "8">>}

TimeValues ==
    {StrV(s) : s \in PaddedTimes \cup UnpaddedTimes \cup EdgeTimes \cup BadTimes}
      \cup {NumV, NullV, MissingV}

IshaTimes == {<<"1", "9", ":", "3", "0">>, <<"9", ":", "5">>}

IshaValues ==
    {StrV(s) : s \in IshaTimes} \cup {StrV(<<"1", "9", "h">>), NumV, MissingV}

TimingsInputs ==
    {Dict(m, i, f, FALSE) : m \in TimeValues, i \in IshaValues, f \in TimeValues}
      \cup {NonDict("null"), NonDict("list")}

GoodTimings ==
    Dict(StrV(<<"1", "8", ":", "0", "0">>), StrV(<<"1", "9", ":", "3", "0">>),
         StrV(<<"0", "4", ":", "3", "0">>), TRUE)

Responses ==
    {Response("neterr", "falsy", "falsy", NonDict("null")),
     Response("httperr", "falsy", "falsy", NonDict("null")),
     Response("notjson", "falsy", "falsy", NonDict("null")),
     Response("ok", "falsy", "falsy", NonDict("null")),
     Response("ok", "nondict", "falsy", NonDict("null")),
     Response("ok", "dict", "falsy", NonDict("null")),
     Response("ok", "dict", "nondict", NonDict("null"))}
      \cup {Response("ok", "dict", "dict", t) :
              t \in {NonDict("null"), NonDict("list"), GoodTimings,
                     Dict(MissingV, MissingV, MissingV, FALSE),
                     Dict(GoodTimings.Maghrib, GoodTimings.Isha, MissingV, TRUE),
                     Dict(NullV, GoodTimings.Isha, GoodTimings.Fajr, TRUE),
                     Dict(GoodTimings.Maghrib, GoodTimings.Isha,
                          StrV(<<"0", "4", ":", "3", "0", " ">>), TRUE)}}

Texts == {<<"C">>, <<" ", "D", " ">>}

Payloads ==
    {CountryPrefix \o <<"E">>, CountryPrefix \o <<"Q", "_", "A">>, <<"x">>}

\* ------------------------------------------------------------------------
\* State
\* ------------------------------------------------------------------------
VARIABLES
    user_locations,        \* user id -> [city, country]        (line 13)
    users_awaiting_city,   \* user id -> country                (line 17)
    tasks,                 \* the handler coroutines the dispatcher runs
    delivered,             \* number of updates dispatched so far
    timings,               \* argument of a direct calculate_times call
    today,                 \* datetime.now().date(), as a day number
    results,               \* value of that call
    again,                 \* a second call on the same argument: the day it
                           \* ran on and its value
    arrival                \* the two maps as they were when the update being
                           \* handled arrived (one handler at a time)

vars ==
    <<user_locations, users_awaiting_city, tasks, delivered, timings, today,
      results, again, arrival>>

botVars == <<user_locations, users_awaiting_city, tasks, delivered, arrival>>

stepVars == <<delivered, timings, today, results, again, arrival>>

calcVars == <<timings, today, results, again>>

NotCalled == [kind |-> "notcalled", out |-> NoFields]

NotCalledAgain == [day |-> -1, result |-> NotCalled]

\* A handler coroutine.  pc names the await at which it is suspended;
\* replies lists the messages it has sent or edited; calls counts its
\* get_prayer_times invocations and provider is what the last one returned.
IdleTask ==
    [pc |-> "idle", kind |-> "none", user |-> 0, arg |-> <<>>, city |-> <<>>,
     country |-> <<>>, replies |-> <<>>, calls |-> 0, provider |-> "notcalled",
     request |-> <<>>, requests |-> 0]

NewTask(kind, u, arg) == [IdleTask EXCEPT !.kind = kind, !.user = u, !.arg = arg]

SessionStore == [locs |-> user_locations, awaiting |-> users_awaiting_city]

InFlight(t) == tasks[t].pc \notin {"idle", "done", "raised"}

\* a coroutine that has returned or raised is reaped before the event loop
\* resumes another one
NoneFinished == \A t \in TaskIds : tasks[t].pc \notin {"done", "raised"}

\* Application.builder().token(BOT_TOKEN).build(): concurrent_updates is left
\* at its default, so the dispatcher awaits each handler before it takes the
\* next update.
CanDispatch(t) ==
    /\ delivered < MaxEvents
    /\ \A o \in TaskIds : tasks[o].pc = "idle"
    /\ \A o \in TaskIds : o >= t

\* With concurrent updates enabled, a handler starts while others are
\* suspended at an await.
CanDispatchConcurrently(t) ==
    /\ delivered < MaxConcurrentEvents
    /\ NoneFinished
    /\ tasks[t].pc = "idle"
    /\ \A o \in TaskIds : o < t => InFlight(o)

Init ==
    /\ user_locations = EmptyDict
    /\ users_awaiting_city = EmptyDict
    /\ tasks = [t \in TaskIds |-> IdleTask]
    /\ delivered = 0
    /\ timings = NonDict("null")
    /\ today = 0
    /\ results = NotCalled
    /\ again = NotCalledAgain
    /\ arrival = [locs |-> EmptyDict, awaiting |-> EmptyDict]

\* ------------------------------------------------------------------------
\* Handlers.  Each action is the code from one resumption of the coroutine
\* to its next await (the reply named there is sent) or to its return.
\* ------------------------------------------------------------------------
Reply(task, msg) == [task EXCEPT !.replies = Append(@, msg)]

At(task, pc) == [task EXCEPT !.pc = pc]

\* lines 128-144 with the user's pending country dropped on /start
start_clears_pending(t, u) ==
    /\ tasks' = [tasks EXCEPT ![t] = At(Reply(NewTask("start", u, <<>>), "welcome"), "start_html")]
    /\ delivered' = delivered + 1
    /\ users_awaiting_city' = DictPop(users_awaiting_city, u)
    /\ UNCHANGED <<user_locations, calcVars>>

\* start, lines 128-144: up to "await update.message.reply_html"
start(t, u) ==
    /\ tasks' = [tasks EXCEPT ![t] = At(Reply(NewTask("start", u, <<>>), "welcome"), "start_html")]
    /\ delivered' = delivered + 1
    /\ UNCHANGED <<user_locations, users_awaiting_city, calcVars>>

\* start, lines 145-148: "await update.message.reply_text(..., reply_markup)"
start_reply_text(t) ==
    /\ tasks[t].pc = "start_html"
    /\ tasks' = [tasks EXCEPT ![t] = At(Reply(@, "choose_country"), "start_text")]
    /\ UNCHANGED <<user_locations, users_awaiting_city, stepVars>>

\* help_command, lines 217-228
help_command(t, u) ==
    /\ tasks' = [tasks EXCEPT ![t] = At(Reply(NewTask("help", u, <<>>), "help"), "help_text")]
    /\ delivered' = delivered + 1
    /\ UNCHANGED <<user_locations, users_awaiting_city, calcVars>>

\* lines 150-163 without the return of line 157 (the lookup of line 159
\* made with empty defaults)
times_command_falls_through(t, u) ==
    /\ IF u \notin DOMAIN user_locations
       THEN tasks' = [tasks EXCEPT ![t] =
                At(Reply(NewTask("times", u, <<>>), "no_location"), "times_searching")]
       ELSE tasks' = [tasks EXCEPT ![t] =
                At(Reply([NewTask("times", u, <<>>) EXCEPT
                             !.city = user_locations[u].city,
                             !.country = user_locations[u].country],
                         "searching_saved"), "times_searching")]
    /\ delivered' = delivered + 1
    /\ UNCHANGED <<user_locations, users_awaiting_city, calcVars>>

\* lines 159-161 with the country taken from users_awaiting_city when the
\* user has a pending one
times_command_prefers_pending(t, u) ==
    /\ IF u \notin DOMAIN user_locations
       THEN tasks' = [tasks EXCEPT ![t] =
                At(Reply(NewTask("times", u, <<>>), "no_location"), "times_nolocation")]
       ELSE tasks' = [tasks EXCEPT ![t] =
                At(Reply([NewTask("times", u, <<>>) EXCEPT
                             !.city = user_locations[u].city,
                             !.country =
                                 IF u \in DOMAIN users_awaiting_city
                                 THEN users_awaiting_city[u]
                                 ELSE user_locations[u].country],
                         "searching_saved"), "times_searching")]
    /\ delivered' = delivered + 1
    /\ UNCHANGED <<user_locations, users_awaiting_city, calcVars>>

\* times_command, lines 150-163
times_command(t, u) ==
    /\ IF u \notin DOMAIN user_locations
       THEN tasks' = [tasks EXCEPT ![t] =
                At(Reply(NewTask("times", u, <<>>), "no_location"), "times_nolocation")]
       ELSE tasks' = [tasks EXCEPT ![t] =
                At(Reply([NewTask("times", u, <<>>) EXCEPT
                             !.city = user_locations[u].city,
                             !.country = user_locations[u].country],
                         "searching_saved"), "times_searching")]
    /\ delivered' = delivered + 1
    /\ UNCHANGED <<user_locations, users_awaiting_city, calcVars>>

\* button_callback, lines 166-169: up to "await query.answer()"
button_callback(t, u, data) ==
    /\ tasks' = [tasks EXCEPT ![t] = At(NewTask("button", u, data), "button_answer")]
    /\ delivered' = delivered + 1
    /\ UNCHANGED <<user_locations, users_awaiting_city, calcVars>>

\* lines 171-180 with the saved location dropped when a country is chosen
button_select_forgets_location(t) ==
    /\ tasks[t].pc = "button_answer"
    /\ IF startswith(tasks[t].arg, CountryPrefix)
       THEN LET country == split_underscore_second(tasks[t].arg)
            IN  /\ users_awaiting_city' =
                      DictSet(users_awaiting_city, tasks[t].user, country)
                /\ user_locations' = DictPop(user_locations, tasks[t].user)
                /\ tasks' = [tasks EXCEPT ![t] =
                      At(Reply([@ EXCEPT !.country = country], "edited"), "button_edit")]
       ELSE /\ tasks' = [tasks EXCEPT ![t] = At(@, "done")]
            /\ UNCHANGED <<users_awaiting_city, user_locations>>
    /\ UNCHANGED stepVars

\* button_callback, lines 171-180: after query.answer()
button_select(t) ==
    /\ tasks[t].pc = "button_answer"
    /\ IF startswith(tasks[t].arg, CountryPrefix)
       THEN LET country == split_underscore_second(tasks[t].arg)
            IN  /\ users_awaiting_city' =
                      DictSet(users_awaiting_city, tasks[t].user, country)
                /\ tasks' = [tasks EXCEPT ![t] =
                      At(Reply([@ EXCEPT !.country = country], "edited"), "button_edit")]
       ELSE /\ tasks' = [tasks EXCEPT ![t] = At(@, "done")]
            /\ UNCHANGED users_awaiting_city
    /\ UNCHANGED <<user_locations, stepVars>>

\* lines 235-242 with the write of line 240 left for after the await
handle_message_write_after_await(t, u, message_text) ==
    LET task == NewTask("text", u, message_text)
    IN  /\ IF u \in DOMAIN users_awaiting_city
           THEN /\ users_awaiting_city' = DictPop(users_awaiting_city, u)
                /\ tasks' = [tasks EXCEPT ![t] =
                      At(Reply([task EXCEPT !.city = strip(message_text),
                                            !.country = users_awaiting_city[u]],
                               "saved"), "msg_saved")]
           ELSE tasks' = [tasks EXCEPT ![t] = At(Reply(task, "guidance"), "msg_guidance")]
                  /\ UNCHANGED users_awaiting_city
        /\ delivered' = delivered + 1
        /\ UNCHANGED <<user_locations, calcVars>>

\* lines 235-236 with the country read by pop(user_id, "") and no membership
\* test: every text is saved as a city
handle_message_saves_every_text(t, u, message_text) ==
    LET text == strip(message_text)
        task == NewTask("text", u, message_text)
        country == IF u \in DOMAIN users_awaiting_city
                   THEN users_awaiting_city[u] ELSE <<>>
        city == text
    IN  /\ users_awaiting_city' = DictPop(users_awaiting_city, u)
        /\ user_locations' =
              DictSet(user_locations, u, [city |-> city, country |-> country])
        /\ tasks' = [tasks EXCEPT ![t] =
              At(Reply([task EXCEPT !.city = city, !.country = country],
                       "saved"), "msg_saved")]
        /\ delivered' = delivered + 1
        /\ UNCHANGED calcVars

\* handle_message, lines 230-242 and 248-251
handle_message(t, u, message_text) ==
    LET text == strip(message_text)
        task == NewTask("text", u, message_text)
    IN  /\ IF u \in DOMAIN users_awaiting_city
           THEN LET country == users_awaiting_city[u]
                    city == text
                IN  /\ users_awaiting_city' = DictPop(users_awaiting_city, u)
                    /\ user_locations' =
                          DictSet(user_locations, u,
                                  [city |-> city, country |-> country])
                    /\ tasks' = [tasks EXCEPT ![t] =
                          At(Reply([task EXCEPT !.city = city, !.country = country],
                                   "saved"), "msg_saved")]
           ELSE /\ tasks' = [tasks EXCEPT ![t] = At(Reply(task, "guidance"), "msg_guidance")]
                /\ UNCHANGED <<user_locations, users_awaiting_city>>
        /\ delivered' = delivered + 1
        /\ UNCHANGED calcVars

\* handle_message, line 243
handle_message_searching(t) ==
    /\ tasks[t].pc = "msg_saved"
    /\ tasks' = [tasks EXCEPT ![t] = At(Reply(@, "searching"), "msg_searching")]
    /\ UNCHANGED <<user_locations, users_awaiting_city, stepVars>>

\* fetch_and_send_times, lines 182-215.  get_prayer_times is a blocking
\* requests.get: there is no await between the call and the reply.
\* lines 186-199 with the two error messages exchanged
FetchOutcome_messages_swapped(task, response, json_caught, day) ==
    LET fetched == get_prayer_times(response, json_caught)
        called == [task EXCEPT !.calls = @ + 1, !.provider = fetched.kind,
                               !.request = <<task.city, task.country>>,
                               !.requests = @ + fetched.requests]
    IN  IF fetched.kind = "raise" THEN At(called, "raised")
        ELSE IF fetched.kind = "none"
             THEN At(Reply(called, "failure"), "fetch_unavailable")
        ELSE LET res == calculate_times(fetched.v, day)
             IN  IF res.kind = "raise" THEN At(called, "raised")
                 ELSE IF res.kind = "empty"
                      THEN At(Reply(called, "unavailable"), "fetch_failure")
                 ELSE At(Reply(called, "schedule"), "fetch_sent")

FetchOutcome(task, response, json_caught, day) ==
    LET fetched == get_prayer_times(response, json_caught)
        called == [task EXCEPT !.calls = @ + 1, !.provider = fetched.kind,
                               !.request = <<task.city, task.country>>,
                               !.requests = @ + fetched.requests]
    IN  IF fetched.kind = "raise" THEN At(called, "raised")
        ELSE IF fetched.kind = "none"
             THEN At(Reply(called, "unavailable"), "fetch_unavailable")
        ELSE LET res == calculate_times(fetched.v, day)
             IN  IF res.kind = "raise" THEN At(called, "raised")
                 ELSE IF res.kind = "empty"
                      THEN At(Reply(called, "failure"), "fetch_failure")
                 ELSE At(Reply(called, "schedule"), "fetch_sent")

fetch_and_send_times(t) ==
    /\ tasks[t].pc \in {"times_searching", "msg_searching"}
    /\ \E outcome \in {FetchOutcome(tasks[t], response, json_caught, day) :
                          response \in Responses, json_caught \in BOOLEAN,
                          day \in 0..MaxDay} :
          tasks' = [tasks EXCEPT ![t] = outcome]
    /\ UNCHANGED <<user_locations, users_awaiting_city, stepVars>>

\* the handler returns after its last await
ReturnPoints ==
    {"start_text", "help_text", "times_nolocation", "button_edit",
     "msg_guidance", "fetch_unavailable", "fetch_failure", "fetch_sent"}

Return(t) ==
    /\ tasks[t].pc \in ReturnPoints
    /\ tasks' = [tasks EXCEPT ![t] = At(@, "done")]
    /\ UNCHANGED <<user_locations, users_awaiting_city, stepVars>>

\* the dispatcher is done with the coroutine (returned or raised)
Retire(t) ==
    /\ tasks[t].pc \in {"done", "raised"}
    /\ tasks' = [tasks EXCEPT ![t] = IdleTask]
    /\ UNCHANGED <<user_locations, users_awaiting_city, stepVars>>

Resume(t) ==
    \/ start_reply_text(t)
    \/ button_select(t)
    \/ handle_message_searching(t)
    \/ fetch_and_send_times(t)
    \/ Return(t)

Step(t) ==
    \/ NoneFinished /\ Resume(t)
    \/ Retire(t)

Dispatch(t) ==
    \/ \E u \in Users : start(t, u)
    \/ \E u \in Users : help_command(t, u)
    \/ \E u \in Users : times_command(t, u)
    \/ \E u \in Users, data \in Payloads : button_callback(t, u, data)
    \/ \E u \in Users, message_text \in Texts : handle_message(t, u, message_text)

Next ==
    \E t \in TaskIds :
        \/ CanDispatch(t) /\ Dispatch(t) /\ arrival' = SessionStore
        \/ Step(t)

Spec == Init /\ [][Next]_vars

NextConcurrent ==
    \E t \in TaskIds :
        \/ CanDispatchConcurrently(t) /\ Dispatch(t) /\ UNCHANGED arrival
        \/ Step(t)

ConcurrentSpec == Init /\ [][NextConcurrent]_vars

\* ------------------------------------------------------------------------
\* calculate_times called directly on every input of TimingsInputs
\* ------------------------------------------------------------------------
CalcInit ==
    /\ user_locations = EmptyDict
    /\ users_awaiting_city = EmptyDict
    /\ tasks = [t \in TaskIds |-> IdleTask]
    /\ delivered = 0
    /\ timings \in TimingsInputs
    /\ today \in 0..MaxDay
    /\ results = NotCalled
    /\ again = NotCalledAgain
    /\ arrival = [locs |-> EmptyDict, awaiting |-> EmptyDict]

Calculate ==
    /\ results = NotCalled
    /\ results' = calculate_times(timings, today)
    /\ UNCHANGED <<timings, today, again, botVars>>

\* the same argument once more, on the same day or on another one
CalculateAgain ==
    /\ results # NotCalled
    /\ again = NotCalledAgain
    /\ \E day \in 0..MaxDay :
          again' = [day |-> day, result |-> calculate_times(timings, day)]
    /\ UNCHANGED <<timings, today, results, botVars>>

CalcNext ==
    \/ Calculate
    \/ CalculateAgain

CalcSpec == CalcInit /\ [][CalcNext]_vars

\* ========================================================================
\* Properties of calculate_times (checked under CalcSpec)
\* ========================================================================
\* Reading of a clock string "H:M" with one or two digits on each side of
\* the colon, as minutes after 00:00.
DecimalOf(s) ==
    IF Len(s) = 1 THEN DigitOf(s[1]) ELSE 10 * DigitOf(s[1]) + DigitOf(s[2])

ColonAt(s) == CHOOSE i \in 1..Len(s) : s[i] = ":"

ClockMinutes(s) ==
    60 * DecimalOf(SubSeq(s, 1, ColonAt(s) - 1))
      + DecimalOf(SubSeq(s, ColonAt(s) + 1, Len(s)))

IsZeroPaddedClock(s) ==
    /\ Len(s) = 5
    /\ s[3] = ":"
    /\ \A i \in {1, 2, 4, 5} : IsDigit(s[i])
    /\ ClockMinutes(s) < 1440
    /\ DecimalOf(SubSeq(s, 4, 5)) < 60

\* Reading of "H:MM:SS" or "N day(s), H:MM:SS" as seconds.
HmsSeconds(s) ==
    LET p == ColonAt(s)
    IN  3600 * DecimalOf(SubSeq(s, 1, p - 1))
          + 60 * DecimalOf(SubSeq(s, p + 1, p + 2))
          + DecimalOf(SubSeq(s, p + 4, p + 5))

DurationSeconds(s) ==
    IF \E i \in 1..Len(s) : s[i] = ","
    THEN LET c == CHOOSE i \in 1..Len(s) : s[i] = ","
             days == IF s[1] = "-" THEN -DigitOf(s[2]) ELSE DigitOf(s[1])
         IN  SecondsPerDay * days + HmsSeconds(SubSeq(s, c + 2, Len(s)))
    ELSE HmsSeconds(s)

\* The strings of the input sets that are clock times, and the mappings
\* that hold three of them.
ValidClockStrings ==
    PaddedTimes \cup UnpaddedTimes \cup EdgeTimes \cup IshaTimes

IsClockValue(v) == v.tag = "str" /\ v.s \in ValidClockStrings

ValidTriple(t) ==
    /\ t.tag = "dict"
    /\ IsClockValue(t.Maghrib)
    /\ IsClockValue(t.Isha)
    /\ IsClockValue(t.Fajr)

Called == results # NotCalled

InMaghrib == ClockMinutes(timings.Maghrib.s)

InFajr == ClockMinutes(timings.Fajr.s)

\* minutes from Maghrib on day R to Fajr on day R+1
NightMinutes == 1440 + InFajr - InMaghrib

SampleTimings ==
    Dict(StrV(<<"1", "8", ":", "0", "0">>), StrV(<<"1", "9", ":", "3", "0">>),
         StrV(<<"0", "4", ":", "3", "0">>), FALSE)

\* C1: for every mapping whose three times parse as HH:MM, calculate_times
\* echoes Maghrib, Isha and Fajr zero-padded, Night_Duration is Fajr(R+1)
\* minus Maghrib(R), Islamic_Midnight is Maghrib plus half of it,
\* Wake_Up_Suggestion is the same string, Sleep_Suggestion is Fajr(R+1) minus
\* a sixth of it, each shown as the HH:MM of its clock time; 18:00, 19:30,
\* 04:30 gives 10:30:00, 23:15, 23:15, 02:45.
C1_DerivedSchedule ==
    (Called /\ ValidTriple(timings)) =>
        /\ results.kind = "ok"
        /\ \A k \in {"Maghrib", "Isha", "Fajr", "Islamic_Midnight",
                     "Wake_Up_Suggestion", "Sleep_Suggestion"} :
               IsZeroPaddedClock(results.out[k])
        /\ ClockMinutes(results.out.Maghrib) = InMaghrib
        /\ ClockMinutes(results.out.Isha) = ClockMinutes(timings.Isha.s)
        /\ ClockMinutes(results.out.Fajr) = InFajr
        /\ DurationSeconds(results.out.Night_Duration) = 60 * NightMinutes
        /\ ClockMinutes(results.out.Islamic_Midnight)
             = ((60 * InMaghrib + 30 * NightMinutes) \div 60) % 1440
        /\ results.out.Wake_Up_Suggestion = results.out.Islamic_Midnight
        /\ ClockMinutes(results.out.Sleep_Suggestion)
             = ((60 * (1440 + InFajr) - 10 * NightMinutes) \div 60) % 1440
        /\ timings = SampleTimings =>
              /\ results.out.Night_Duration = <<"1", "0", ":", "3", "0", ":", "0", "0">>
              /\ results.out.Islamic_Midnight = <<"2", "3", ":", "1", "5">>
              /\ results.out.Wake_Up_Suggestion = <<"2", "3", ":", "1", "5">>
              /\ results.out.Sleep_Suggestion = <<"0", "2", ":", "4", "5">>

C1_Witness ==
    /\ Called
    /\ timings = SampleTimings
    /\ results.kind = "ok"

\* C2: for every input in which one of Maghrib, Isha, Fajr is absent or is
\* not a string that parses as HH:MM, and for every input that is not a
\* mapping, calculate_times returns the "no result" outcome and lets no
\* exception escape.
C2_NoResultOnBadInput ==
    (Called /\ ~ValidTriple(timings)) => results.kind = "empty"

\* C7 as stated: for all valid triples, Fajr being a clock time after the
\* midnight that starts day R+1, the night duration is strictly positive and
\* strictly less than 24 hours.
C7_NightBelowOneDay ==
    (Called /\ ValidTriple(timings) /\ InFajr > 0) =>
        /\ results.kind = "ok"
        /\ DurationSeconds(results.out.Night_Duration) > 0
        /\ DurationSeconds(results.out.Night_Duration) < SecondsPerDay

\* C7 (amended): for all valid triples the night duration is strictly
\* positive and strictly less than 48 hours; it is less than 24 hours
\* exactly when Fajr's clock value is less than Maghrib's.
C7_NightDurationRange ==
    (Called /\ ValidTriple(timings)) =>
        /\ results.kind = "ok"
        /\ DurationSeconds(results.out.Night_Duration) > 0
        /\ DurationSeconds(results.out.Night_Duration) < 2 * SecondsPerDay
        /\ DurationSeconds(results.out.Night_Duration) < SecondsPerDay
             <=> InFajr < InMaghrib

C7_Witness ==
    /\ Called
    /\ ValidTriple(timings)
    /\ InFajr >= InMaghrib
    /\ DurationSeconds(results.out.Night_Duration) >= SecondsPerDay

\* Position of a returned clock string on the timeline that starts at the
\* returned Maghrib, in minutes.
AfterMaghrib(s) ==
    (ClockMinutes(s) - ClockMinutes(results.out.Maghrib)) % 1440

ShortNight ==
    /\ Called
    /\ ValidTriple(timings)
    /\ results.kind = "ok"
    /\ DurationSeconds(results.out.Night_Duration) > 0
    /\ DurationSeconds(results.out.Night_Duration) < SecondsPerDay

\* C8 as stated: when the night is longer than zero and shorter than 24
\* hours, the returned Islamic_Midnight lies strictly after the returned
\* Maghrib and strictly before the returned Fajr.
C8_MidnightStrictlyInside ==
    ShortNight =>
        /\ AfterMaghrib(results.out.Islamic_Midnight) > 0
        /\ AfterMaghrib(results.out.Islamic_Midnight)
             < AfterMaghrib(results.out.Fajr)

\* C8 (amended): when the night is longer than zero and shorter than 24
\* hours, the returned Islamic_Midnight lies at or after the returned
\* Maghrib and strictly before the returned Fajr, and strictly after
\* Maghrib whenever the night lasts at least two minutes.
C8_MidnightInside ==
    ShortNight =>
        /\ AfterMaghrib(results.out.Islamic_Midnight) >= 0
        /\ AfterMaghrib(results.out.Islamic_Midnight)
             < AfterMaghrib(results.out.Fajr)
        /\ AfterMaghrib(results.out.Fajr) >= 2
             => AfterMaghrib(results.out.Islamic_Midnight) > 0

C8_Witness ==
    /\ ShortNight
    /\ AfterMaghrib(results.out.Fajr) = 1
    /\ results.out.Islamic_Midnight = results.out.Maghrib

\* C11 as stated: when the night is longer than zero and shorter than 24
\* hours, the returned Sleep_Suggestion lies strictly after the returned
\* Islamic_Midnight and strictly before the returned Fajr on the night's
\* timeline.
C11_SleepStrictlyInside ==
    ShortNight
        => /\ AfterMaghrib(results.out.Sleep_Suggestion)
                > AfterMaghrib(results.out.Islamic_Midnight)
           /\ AfterMaghrib(results.out.Sleep_Suggestion)
                < AfterMaghrib(results.out.Fajr)

\* C11 amended: when the night is longer than zero and shorter than 24
\* hours, the returned Sleep_Suggestion is never before the returned
\* Islamic_Midnight and is strictly before the returned Fajr; it is strictly
\* after Islamic_Midnight whenever the night lasts at least three minutes
\* (both values are shown to the minute).
C11_SleepInside ==
    ShortNight
        => /\ AfterMaghrib(results.out.Sleep_Suggestion)
                >= AfterMaghrib(results.out.Islamic_Midnight)
           /\ AfterMaghrib(results.out.Sleep_Suggestion)
                < AfterMaghrib(results.out.Fajr)
           /\ AfterMaghrib(results.out.Fajr) >= 3
                => AfterMaghrib(results.out.Sleep_Suggestion)
                     > AfterMaghrib(results.out.Islamic_Midnight)

C11_Witness ==
    /\ ShortNight
    /\ AfterMaghrib(results.out.Fajr) = 2
    /\ results.out.Sleep_Suggestion = results.out.Islamic_Midnight
    /\ results.out.Sleep_Suggestion # results.out.Maghrib

\* s is hours (one or two digits), two-digit minutes and two-digit seconds
\* separated by colons, and nothing else
IsHMS(s) ==
    \E h \in 1..2 :
        /\ Len(s) = h + 6
        /\ \A i \in (1..(h + 6)) \ {h + 1, h + 4} : IsDigit(s[i])
        /\ s[h + 1] = ":"
        /\ s[h + 4] = ":"
        /\ DecimalOf(SubSeq(s, h + 2, h + 3)) < 60
        /\ DecimalOf(SubSeq(s, h + 5, h + 6)) < 60

OneDayPrefix == <<"1", " ", "d", "a", "y", ",", " ">>

\* C14 as stated: for every mapping whose three times parse as HH:MM, the
\* returned Night_Duration has the form H:MM:SS and nothing else.
C14_NightDurationIsHMS ==
    (Called /\ ValidTriple(timings))
        => /\ results.kind = "ok"
           /\ IsHMS(results.out.Night_Duration)

\* C14 amended: for every mapping whose three times parse as HH:MM, the
\* returned Night_Duration has the form H:MM:SS when Fajr's clock value is
\* below Maghrib's, and is "1 day, " followed by H:MM:SS otherwise; in both
\* cases there is no sub-second part.
C14_NightDurationForm ==
    (Called /\ ValidTriple(timings))
        => /\ results.kind = "ok"
           /\ LET nd == results.out.Night_Duration
              IN  IF InFajr < InMaghrib
                  THEN IsHMS(nd)
                  ELSE /\ Len(nd) > Len(OneDayPrefix)
                       /\ SubSeq(nd, 1, Len(OneDayPrefix)) = OneDayPrefix
                       /\ IsHMS(SubSeq(nd, Len(OneDayPrefix) + 1, Len(nd)))

C14_Witness ==
    /\ Called
    /\ ValidTriple(timings)
    /\ results.kind = "ok"
    /\ results.out.Night_Duration
         = OneDayPrefix \o <<"4", ":", "3", "0", ":", "0", "0">>

\* C17: a second call of calculate_times on the same mapping returns what
\* the first call returned, whether it runs on the same reference date or on
\* another one.
C17_SameOutputOnAnyDate ==
    again # NotCalledAgain => again.result = results

C17_Witness ==
    /\ again # NotCalledAgain
    /\ again.day # today
    /\ ValidTriple(timings)
    /\ results.kind = "ok"
    /\ again.result = results

\* seconds from 00:00 of day R to the exact instants Maghrib + D/2 and
\* Fajr(R+1) - D/6
ExactMidnight == 60 * InMaghrib + 30 * NightMinutes

ExactSleep == 60 * (1440 + InFajr) - 10 * NightMinutes

\* seconds by which the exact instant is later than the shown HH:MM
SecondsCut(exact, shown) == (exact - 60 * ClockMinutes(shown)) % SecondsPerDay

\* C18: for every valid triple, the Islamic_Midnight and Sleep_Suggestion
\* that calculate_times returns are the exact instants Maghrib + D/2 and
\* Fajr - D/6 truncated down to the minute: never later than the exact
\* instant and less than 60 seconds earlier.
C18_TruncatedToMinute ==
    (Called /\ ValidTriple(timings))
        => /\ results.kind = "ok"
           /\ SecondsCut(ExactMidnight, results.out.Islamic_Midnight) < 60
           /\ SecondsCut(ExactSleep, results.out.Sleep_Suggestion) < 60

C18_Witness ==
    /\ Called
    /\ ValidTriple(timings)
    /\ results.kind = "ok"
    /\ SecondsCut(ExactMidnight, results.out.Islamic_Midnight) = 30
    /\ SecondsCut(ExactSleep, results.out.Sleep_Suggestion) = 50

\* ========================================================================
\* Properties of the handlers (checked under Spec unless said otherwise)
\* ========================================================================
Returned(t) == tasks[t].pc = "done"

BetweenTurns == \A t \in TaskIds : ~InFlight(t)

Sent(t, msg) == \E i \in 1..Len(tasks[t].replies) : tasks[t].replies[i] = msg

\* the handling called TimingsProvider and got the unavailable signal
GotUnavailable(t) == tasks[t].calls > 0 /\ tasks[t].provider = "none"

\* c is raw without its leading and trailing spaces
IsTrimmed(raw, c) ==
    /\ c = <<>> \/ (c[1] # " " /\ c[Len(c)] # " ")
    /\ \E a \in 0..Len(raw) :
          /\ a + Len(c) <= Len(raw)
          /\ \A i \in 1..Len(c) : raw[a + i] = c[i]
          /\ \A i \in 1..Len(raw) : (i <= a \/ i > a + Len(c)) => raw[i] = " "

\* C3 as stated: when the handling of a /times command or a city text calls
\* TimingsProvider and gets the unavailable signal, the user is sent the
\* InputUnavailable message and both session maps are at the end of the
\* handling what they were when the update arrived.
C3_UnavailableLeavesSessionStore ==
    \A t \in TaskIds :
        (Returned(t) /\ GotUnavailable(t)) =>
            /\ Sent(t, "unavailable")
            /\ user_locations = arrival.locs
            /\ users_awaiting_city = arrival.awaiting

\* C3 (amended): ... the user is sent the InputUnavailable message; after a
\* /times command both session maps are at the end of the handling what they
\* were when the update arrived; after a city text they differ from that
\* only by what handle_message did before the call: the user's pending
\* country is removed and the user's location is the city with that country.
C3_UnavailableFrame ==
    \A t \in TaskIds :
        (Returned(t) /\ GotUnavailable(t)) =>
            LET u == tasks[t].user
            IN  /\ Sent(t, "unavailable")
                /\ ~Sent(t, "schedule")
                /\ tasks[t].kind \in {"times", "text"}
                /\ tasks[t].kind = "times" =>
                      /\ user_locations = arrival.locs
                      /\ users_awaiting_city = arrival.awaiting
                /\ tasks[t].kind = "text" =>
                      /\ u \in DOMAIN arrival.awaiting
                      /\ DOMAIN users_awaiting_city = (DOMAIN arrival.awaiting) \ {u}
                      /\ \A o \in DOMAIN users_awaiting_city :
                            users_awaiting_city[o] = arrival.awaiting[o]
                      /\ DOMAIN user_locations = (DOMAIN arrival.locs) \cup {u}
                      /\ \A o \in (DOMAIN user_locations) \ {u} :
                            user_locations[o] = arrival.locs[o]
                      /\ user_locations[u].country = arrival.awaiting[u]
                      /\ IsTrimmed(tasks[t].arg, user_locations[u].city)

C3_Witness ==
    \E t \in TaskIds :
        /\ Returned(t)
        /\ GotUnavailable(t)
        /\ tasks[t].kind = "text"
        /\ user_locations # arrival.locs

InBoth(locs, awaiting, u) == u \in DOMAIN locs /\ u \in DOMAIN awaiting

\* C4 as stated: in every state between turns no user identifier is a key
\* of users_awaiting_city and of user_locations at the same time.
C4_NeverInBoth ==
    BetweenTurns =>
        \A u \in Users : ~InBoth(user_locations, users_awaiting_city, u)

\* C4 (amended): a user identifier becomes a key of both maps only when a
\* country button is pressed by a user who already has a saved location,
\* which that press leaves as it is; whenever a user's location is written,
\* that user is not pending once the step is over.
C4_BothOnlyByButton ==
    [][\A u \in Users :
          /\ (InBoth(user_locations', users_awaiting_city', u)
                /\ ~InBoth(user_locations, users_awaiting_city, u))
               => /\ u \in DOMAIN user_locations
                  /\ user_locations'[u] = user_locations[u]
                  /\ \E t \in TaskIds :
                        /\ tasks[t].pc = "button_answer"
                        /\ tasks'[t].pc = "button_edit"
                        /\ tasks[t].user = u
          /\ (u \in DOMAIN user_locations'
                /\ (u \notin DOMAIN user_locations
                      \/ user_locations'[u] # user_locations[u]))
               => u \notin DOMAIN users_awaiting_city']_vars

C4_Witness ==
    /\ BetweenTurns
    /\ \E u \in Users : InBoth(user_locations, users_awaiting_city, u)

\* C5: every event delivered to a handler has produced at least one reply
\* (a sent text or an edited message) when the handler returns.
C5_AlwaysReplies ==
    \A t \in TaskIds : Returned(t) => Len(tasks[t].replies) >= 1

\* C6: every failure while an update is handled is caught inside the handler
\* and ends as the InputUnavailable or the ComputationFailure message; no
\* exception leaves the handler.
C6_NoExceptionEscapes ==
    \A t \in TaskIds :
        /\ tasks[t].pc # "raised"
        /\ (Returned(t) /\ tasks[t].calls > 0) =>
              \/ Sent(t, "schedule")
              \/ Sent(t, "unavailable")
              \/ Sent(t, "failure")

\* the handling of a text from a user who had a pending country
ConsumedPending(t) ==
    /\ Returned(t)
    /\ tasks[t].kind = "text"
    /\ tasks[t].user \in DOMAIN arrival.awaiting

\* C9 as stated: after the turn of a free text t from a user with pending
\* country c, the user is not pending and holds {city: t, country: c}.
C9_LocationIsTextAndCountry ==
    \A t \in TaskIds :
        ConsumedPending(t) =>
            /\ tasks[t].user \notin DOMAIN users_awaiting_city
            /\ tasks[t].user \in DOMAIN user_locations
            /\ user_locations[tasks[t].user] =
                  [city |-> tasks[t].arg,
                   country |-> arrival.awaiting[tasks[t].user]]

\* C9 (amended): after the turn of a free text t from a user with pending
\* country c, the user is not pending and holds {city: t without its
\* leading and trailing whitespace, country: c}; the removal from
\* PendingSelection and the write happen in the handler's first step, the
\* removal first.
C9_LocationIsStrippedTextAndCountry ==
    \A t \in TaskIds :
        /\ ConsumedPending(t) =>
              /\ tasks[t].user \notin DOMAIN users_awaiting_city
              /\ tasks[t].user \in DOMAIN user_locations
              /\ user_locations[tasks[t].user].country
                    = arrival.awaiting[tasks[t].user]
              /\ IsTrimmed(tasks[t].arg, user_locations[tasks[t].user].city)
        /\ (tasks[t].kind = "text" /\ tasks[t].pc = "msg_saved") =>
              /\ tasks[t].user \notin DOMAIN users_awaiting_city
              /\ tasks[t].user \in DOMAIN user_locations

C9_Witness ==
    \E t \in TaskIds :
        /\ ConsumedPending(t)
        /\ tasks[t].arg = <<" ", "D", " ">>
        /\ user_locations[tasks[t].user] = [city |-> <<"D">>, country |-> <<"E">>]

\* the handler of task t is over: it returned, or an exception left it
Over(t) == tasks[t].pc \in {"done", "raised"}

Prompts == {"choose_country", "no_location", "guidance"}

\* C12: a /times command from a user with no saved location is answered
\* with the "use /start first" reply and nothing else, calls TimingsProvider
\* zero times and leaves user_locations and users_awaiting_city as they
\* were when the command arrived.
C12_TimesWithoutLocation ==
    \A t \in TaskIds :
        (Over(t) /\ tasks[t].kind = "times"
           /\ tasks[t].user \notin DOMAIN arrival.locs)
            => /\ Returned(t)
               /\ tasks[t].replies = <<"no_location">>
               /\ tasks[t].calls = 0
               /\ SessionStore = arrival

C12_Witness ==
    \E t \in TaskIds :
        /\ Returned(t)
        /\ tasks[t].kind = "times"
        /\ tasks[t].user \notin DOMAIN arrival.locs
        /\ tasks[t].user \in DOMAIN arrival.awaiting
        /\ Sent(t, "no_location")

\* C13: a text from a user who is not awaiting a city and has no saved
\* location is answered with the guidance message and nothing else, calls
\* TimingsProvider zero times, and leaves the user with no saved location
\* and no pending country (both maps are as they were on arrival).
C13_IdleTextGetsGuidance ==
    \A t \in TaskIds :
        (Over(t) /\ tasks[t].kind = "text"
           /\ tasks[t].user \notin DOMAIN arrival.awaiting
           /\ tasks[t].user \notin DOMAIN arrival.locs)
            => /\ Returned(t)
               /\ tasks[t].replies = <<"guidance">>
               /\ tasks[t].calls = 0
               /\ tasks[t].user \notin DOMAIN user_locations
               /\ tasks[t].user \notin DOMAIN users_awaiting_city
               /\ SessionStore = arrival

C13_Witness ==
    \E t \in TaskIds :
        /\ Returned(t)
        /\ tasks[t].kind = "text"
        /\ tasks[t].user \notin DOMAIN arrival.awaiting
        /\ tasks[t].user \notin DOMAIN arrival.locs
        /\ Sent(t, "guidance")

\* C15: a /times command from a user with a saved location calls
\* TimingsProvider with the city and the country saved for that user (not
\* with a country that is only pending), sends none of the prompts, and
\* leaves user_locations and users_awaiting_city as they were on arrival.
C15_TimesUsesSavedLocation ==
    \A t \in TaskIds :
        (Over(t) /\ tasks[t].kind = "times"
           /\ tasks[t].user \in DOMAIN arrival.locs)
            => /\ tasks[t].calls = 1
               /\ tasks[t].request =
                     <<arrival.locs[tasks[t].user].city,
                       arrival.locs[tasks[t].user].country>>
               /\ \A msg \in Prompts : ~Sent(t, msg)
               /\ SessionStore = arrival

\* the user has saved one country and has another one pending
C15_Witness ==
    \E t \in TaskIds :
        /\ Returned(t)
        /\ tasks[t].kind = "times"
        /\ tasks[t].user \in DOMAIN arrival.locs
        /\ tasks[t].user \in DOMAIN arrival.awaiting
        /\ arrival.awaiting[tasks[t].user]
             # arrival.locs[tasks[t].user].country
        /\ tasks[t].calls = 1

\* the events that reach fetch_and_send_times
NeedsProvider(t) ==
    \/ tasks[t].kind = "times" /\ tasks[t].user \in DOMAIN arrival.locs
    \/ tasks[t].kind = "text" /\ tasks[t].user \in DOMAIN arrival.awaiting

\* C16: every invocation of get_prayer_times makes one outbound request,
\* failed or not; a handled /times command of a user with a saved location
\* and a handled city text invoke it once, every other event never.
C16_OneRequestPerInvocation ==
    \A t \in TaskIds :
        /\ tasks[t].requests = tasks[t].calls
        /\ tasks[t].calls <= 1
        /\ tasks[t].calls = 1 => NeedsProvider(t)
        /\ (Over(t) /\ NeedsProvider(t)) => tasks[t].calls = 1

\* the one request failed and the handler returned
C16_Witness ==
    \E t \in TaskIds :
        /\ Returned(t)
        /\ tasks[t].kind = "text"
        /\ GotUnavailable(t)
        /\ tasks[t].requests = 1

\* step in which handle_message takes a text of user u who is awaiting a
\* city
CityTextStep(u) ==
    \E t \in TaskIds :
        /\ tasks[t].pc = "idle"
        /\ tasks'[t].pc = "msg_saved"
        /\ tasks'[t].kind = "text"
        /\ tasks'[t].user = u
        /\ u \in DOMAIN users_awaiting_city

\* C19: no step removes a user's entry of user_locations, and an entry is
\* created or changed only by the step of handle_message that takes a text
\* of that same user while that user is awaiting a city.
C19_LocationStays ==
    [][\A u \in Users :
          /\ u \in DOMAIN user_locations => u \in DOMAIN user_locations'
          /\ (u \in DOMAIN user_locations'
                /\ (u \notin DOMAIN user_locations
                      \/ user_locations'[u] # user_locations[u]))
               => CityTextStep(u)]_vars

\* a user with a saved location has pressed a country button and still has it
C19_Witness ==
    \E t \in TaskIds :
        /\ Returned(t)
        /\ tasks[t].kind = "button"
        /\ Sent(t, "edited")
        /\ tasks[t].user \in DOMAIN arrival.locs
        /\ tasks[t].user \in DOMAIN user_locations
        /\ user_locations[tasks[t].user] = arrival.locs[tasks[t].user]

\* the step belongs to a handler of /start, /help or /times
CommandStep ==
    \E t \in TaskIds :
        /\ tasks'[t] # tasks[t]
        /\ \/ tasks'[t].kind \in {"start", "help", "times"}
           \/ tasks[t].kind \in {"start", "help", "times"}

\* C20: a user's pending country is removed only by the step that takes a
\* text of that user, and that step saves the stripped text with the
\* pending country; it is created or replaced only by the step of
\* button_callback that handles a press of that user, and becomes the
\* country of that press; the steps of /start, /help and /times leave
\* users_awaiting_city unchanged.
C20_PendingCountry ==
    [][/\ \A u \in Users :
            /\ (u \in DOMAIN users_awaiting_city
                  /\ u \notin DOMAIN users_awaiting_city')
                 => /\ CityTextStep(u)
                    /\ u \in DOMAIN user_locations'
                    /\ user_locations'[u].country = users_awaiting_city[u]
            /\ (u \in DOMAIN users_awaiting_city'
                  /\ (u \notin DOMAIN users_awaiting_city
                        \/ users_awaiting_city'[u] # users_awaiting_city[u]))
                 => \E t \in TaskIds :
                       /\ tasks[t].pc = "button_answer"
                       /\ tasks[t].user = u
                       /\ tasks[t].arg = CountryPrefix \o users_awaiting_city'[u]
       /\ CommandStep => users_awaiting_city' = users_awaiting_city]_vars

\* a command was handled, after at least two other events, for a user with
\* a pending country, and the country is still pending
C20_Witness ==
    \E t \in TaskIds :
        /\ Returned(t)
        /\ tasks[t].kind \in {"start", "help", "times"}
        /\ delivered >= 3
        /\ tasks[t].user \in DOMAIN users_awaiting_city
        /\ users_awaiting_city[tasks[t].user] = <<"Q", "_", "A">>
        /\ arrival.awaiting = users_awaiting_city

\* ========================================================================
\* Handlers that interleave at their awaits (checked under ConcurrentSpec)
\* ========================================================================
\* C10: when handlers for the same user interleave at their awaits, the
\* membership test, the removal from users_awaiting_city and the write to
\* user_locations of handle_message are one step: a user leaves
\* users_awaiting_city only in the first step of one text handler of that
\* user, no other handler moves in that step, and the step writes the
\* location that pairs the removed country with that message's text; a
\* location is written only by such a step.
C10_ConsumeAndSaveInOneStep ==
    [][\A u \in Users :
          /\ (u \in DOMAIN users_awaiting_city
                /\ u \notin DOMAIN users_awaiting_city')
               => \E t \in TaskIds :
                     /\ tasks[t].pc = "idle"
                     /\ tasks'[t].pc = "msg_saved"
                     /\ tasks'[t].kind = "text"
                     /\ tasks'[t].user = u
                     /\ \A o \in TaskIds \ {t} : tasks'[o] = tasks[o]
                     /\ u \in DOMAIN user_locations'
                     /\ user_locations'[u].country = users_awaiting_city[u]
                     /\ IsTrimmed(tasks'[t].arg, user_locations'[u].city)
          /\ (u \in DOMAIN user_locations'
                /\ (u \notin DOMAIN user_locations
                      \/ user_locations'[u] # user_locations[u]))
               => /\ u \in DOMAIN users_awaiting_city
                  /\ u \notin DOMAIN users_awaiting_city'
          /\ (u \in DOMAIN user_locations /\ u \notin DOMAIN user_locations')
               => FALSE]_vars

\* two text handlers of one user are in flight together; one has consumed
\* the pending country, the other found none
C10_Witness ==
    \E t1, t2 \in TaskIds :
        /\ t1 # t2
        /\ tasks[t1].kind = "text"
        /\ tasks[t2].kind = "text"
        /\ tasks[t1].user = tasks[t2].user
        /\ tasks[t1].pc \in {"msg_saved", "msg_searching"}
        /\ tasks[t2].pc = "msg_guidance"
        /\ tasks[t1].user \in DOMAIN user_locations

====
